---- MODULE Spec2Model ----
(***************************************************************************)
(* Model of the Hytale username-availability proxy (src/unnamed/part_002   *)
(* with the store adapter of src/src/redis.ts).                            *)
(*                                                                         *)
(* One process runs the module's top level ("main": the start-up           *)
(* ensureLoggedIn, then listen) and the GET /check/:username handler runs  *)
(* concurrently in the handler instances of Handlers.  Every await of the  *)
(* source (a Redis round trip, an HTTP fetch) is a point where another     *)
(* handler may run, so every action below is the code between two awaits.  *)
(* The Redis store, the origin API and the clock are the environment.      *)
(*                                                                         *)
(* Spec is the program serving check requests.  SessionSpec is the session *)
(* on its own, read by GET /status, with the jar and the clock ranging     *)
(* over the cases of the validity test.                                    *)
(***************************************************************************)
EXTENDS Integers, Sequences, FiniteSets, TLC

(***************************************************************************)
(* Bounds of the model and constants of the program.                       *)
(***************************************************************************)
MaxRequests == 3          \* check requests accepted in one behaviour
MaxExpiryMin == 15        \* session cookies expire at most so many minutes
                          \* after the start (SessionSpec)
MaxTimeMs == 90000        \* the clock stops advancing here
TickMs == 45000           \* granularity of the clock
SessionLifeMs == 360000   \* lifetime of the session cookie the origin grants

AVAILABLE_TTL == 60       \* seconds, part_002:22
Tokens == 30              \* Ratelimit.slidingWindow(30, "60 s"), part_002:26
WindowMs == 60000         \* "60 s", part_002:26
SafetyMarginMs == 300000  \* 5 * 60 * 1000, part_002:57
StatusOk == 200
StatusTaken == 400
StatusUnauthorized == 401
StatusServerError == 500
StatusSeeOther == 303

Null == "null"

Handlers == {"h1", "h2"}
Procs == {"main"} \cup Handlers

\* The router takes the first free handler instance.
Before(g, h) == g = "h1" /\ h = "h2"

\* server?.requestIP(request)?.address ?? "unknown"
IPs == {"10.0.0.1", "unknown"}
SessionLifetimes == {SessionLifeMs}

\* Usernames are sequences of characters, so that lower-casing is computed.
Usernames == { <<"F", "o">>, <<"f", "o">> }

LowerChar(c) == IF c = "F" THEN "f" ELSE IF c = "B" THEN "b" ELSE c

\* String.prototype.toLowerCase
ToLowerCase(u) == [i \in DOMAIN u |-> LowerChar(u[i])]

\* `${CACHE_PREFIX}${username.toLowerCase()}`
CacheKey(u) == <<"hytale:username:">> \o ToLowerCase(u)

\* encodeURIComponent, character by character: letters stand for
\* themselves, a space is escaped
EncodeChar(c) == IF c = " " THEN "%20" ELSE c

EncodeURIComponent(u) == [i \in DOMAIN u |-> EncodeChar(u[i])]

\* the origin reads the query parameter back
DecodeChar(e) == IF e = "%20" THEN " " ELSE e

DecodeURIComponent(q) == [i \in DOMAIN q |-> DecodeChar(q[i])]

\* the request asks for the lower-cased name
OriginQuery_LowerCased(u) == EncodeURIComponent(ToLowerCase(u))

\* ...availability?username=${encodeURIComponent(username)}
OriginQuery(u) == EncodeURIComponent(u)

CacheKeys == { CacheKey(u) : u \in Usernames }

VARIABLES
    alive,        \* the process has not been terminated
    termPending,  \* SIGTERM was sent to the process and is not yet delivered
    now,          \* Date.now(), milliseconds
    jar,          \* cookieJar: [csrf, session: BOOLEAN, expires: ms, 0 = none]
    cache,        \* Redis keys hytale:username:*: [val, exp: ms, 0 = no expiry]
    rlStore,      \* Redis counters of the rate limiter, per key: [cur, prev]
    taken,        \* origin: the names that are reserved
    pc,           \* position of main and of each handler instance
    req,          \* the request a handler serves: [user, ip]
    loc,          \* locals of checkUsername: cached, rateLimit, the query
                  \* sent to the origin, response.status
    result,       \* the CheckResult checkUsername returned
    started,      \* requests accepted so far
    trace,        \* history: the components the request has called, in order
    loginFailed,  \* history: login() threw inside this caller's ensureLoggedIn
    permits,      \* history: permits granted per caller IP: [cur, prev]
    recorded,     \* history: a request returned "taken, not cached" for the key
    late,         \* history: the request was accepted after recorded[its key]
    prior,        \* history: the cache entry of the name at the acceptance
    statusReply,  \* the body of the latest answer of GET /status
    loginRun,     \* history: the login run in progress: the requests it
                  \* has sent and what their answers held
    granted,      \* history: calls of the limiter answered success = true
    originRequests  \* history: availability requests sent to the origin

vars == << alive, termPending, now, jar, cache, rlStore, taken, pc, req, loc,
           result, started, trace, loginFailed, permits, recorded, late,
           prior, statusReply, loginRun, granted, originRequests >>

(***************************************************************************)
(* Session manager: the cookie jar and isSessionValid.                     *)
(***************************************************************************)
EmptyJar == [csrf |-> FALSE, session |-> FALSE, expires |-> 0]

\* the margin is left out
isSessionValid_NoMargin(j, t) == j.session /\ j.expires # 0 /\ t < j.expires

\* isSessionValid(): no ory_kratos_session cookie, or a cookie without
\* expires, is invalid; otherwise Date.now() < expiresAt - 5 * 60 * 1000.
isSessionValid(j, t) ==
    /\ j.session
    /\ j.expires # 0
    /\ t < j.expires - SafetyMarginMs

\* cookieJar.getCookiesSync(...).find(c => c.key === "ory_kratos_session"):
\* the jar leaves out a cookie whose expiry has passed; a cookie that came
\* without Expires and Max-Age is kept, its expires is "Infinity" (here 0)
HasSessionCookie(j, t) == j.session /\ (j.expires = 0 \/ t < j.expires)

\* getSessionExpiry(): null, or new Date(sessionCookie.expires), which is an
\* invalid date for a cookie without expiry
getSessionExpiry(j, t) ==
    IF HasSessionCookie(j, t)
    THEN [isNull |-> FALSE, validDate |-> j.expires # 0, ms |-> j.expires]
    ELSE [isNull |-> TRUE, validDate |-> FALSE, ms |-> 0]

\* Number(((expiresAt.getTime() - Date.now()) / 1000 / 60 / 60).toFixed(2)),
\* in hundredths of an hour
HoursLeft(expiresAt, t) == (2 * (expiresAt - t) + 36000) \div (2 * 36000)

NoStatus ==
    [kind |-> "none", loggedIn |-> FALSE, expiresAt |-> 0, hoursLeft |-> 0]

\* { loggedIn, expiresAt, hoursLeft }: expiresAt and hoursLeft are 0 for null
StatusBody(loggedIn, expiresAt, hoursLeft) ==
    [kind |-> "ok", loggedIn |-> loggedIn, expiresAt |-> expiresAt,
     hoursLeft |-> hoursLeft]

\* expiresAt?.toISOString() throws RangeError on an invalid date
StatusThrew == [NoStatus EXCEPT !.kind = "threw"]

\* what a response of accounts.hytale.com may say about the session cookie:
\* nothing, or that it is over (Set-Cookie ory_kratos_session, Max-Age=0)
SetCookies == {"none", "clear"}

\* the origin ends a session only in an answer that refuses it
OriginCookies(status) ==
    IF status = StatusUnauthorized THEN SetCookies ELSE {"none"}

\* fetchWithCookies = fetchCookie(fetch, cookieJar): the Set-Cookie headers
\* of every response fetched through it are stored in cookieJar
StoreCookies(j, setCookie) ==
    IF setCookie = "clear" THEN [j EXCEPT !.session = FALSE, !.expires = 0]
    ELSE j

(***************************************************************************)
(* Availability cache over Redis.                                          *)
(***************************************************************************)
Absent == [val |-> Null, exp |-> 0]

\* redis.get(key) at time t: null for a missing or an expired key.
RedisGet(c, k, t) ==
    IF c[k].val = Null \/ (c[k].exp # 0 /\ c[k].exp <= t) THEN Null
    ELSE c[k].val

\* getCachedAvailability: null, or cached === "1".
getCachedAvailability(c, u, t) ==
    LET cached == RedisGet(c, CacheKey(u), t)
    IN  [isNull |-> cached = Null, value |-> cached = "1"]

\* both verdicts are written with EX AVAILABLE_TTL
setCachedAvailability_AlwaysExpires(c, u, available, t) ==
    [c EXCEPT ![CacheKey(u)] =
        [val |-> IF available THEN "1" ELSE "0",
         exp |-> t + AVAILABLE_TTL * 1000]]

\* the SET is not carried out
setCachedAvailability_Lost(c, u, available, t) == c

\* setCachedAvailability: "1" with EX AVAILABLE_TTL, or "0" without expiry.
setCachedAvailability(c, u, available, t) ==
    [c EXCEPT ![CacheKey(u)] =
        IF available THEN [val |-> "1", exp |-> t + AVAILABLE_TTL * 1000]
                     ELSE [val |-> "0", exp |-> 0]]

\* Redis drops the keys whose expiry has passed.
Purge(c, t) ==
    [k \in DOMAIN c |-> IF c[k].exp # 0 /\ c[k].exp <= t THEN Absent ELSE c[k]]

(***************************************************************************)
(* Rate limiter: Ratelimit.slidingWindow(30, "60 s") evaluated as one      *)
(* script in Redis (redis.ts eval/evalsha hand the script over whole).     *)
(***************************************************************************)
\* ratelimit.limit("check_username", { ip }): the first argument is the
\* identifier the counters are keyed by; the second carries request data.
RateLimitKey(ip) == <<"hytale:ratelimit", "check_username">>

RLKeys == { RateLimitKey(ip) : ip \in IPs }

WindowOf(t) == t \div WindowMs

\* math.floor((1 - percentageInCurrent) * requestsInPreviousWindow)
WeightedPrev(prev, t) == ((WindowMs - (t % WindowMs)) * prev) \div WindowMs

\* off by one: the script denies only above the limit
SlidingWindowAllows_OffByOne(e, t) == e.cur + WeightedPrev(e.prev, t) <= Tokens

\* the script's test: deny when previous (weighted) + current >= tokens
SlidingWindowAllows(e, t) == e.cur + WeightedPrev(e.prev, t) < Tokens

\* reset = (currentWindow + 1) * windowSize
ResetAt(t) == (WindowOf(t) + 1) * WindowMs

\* the counters as seen at time t1, last touched at time t0
Roll(e, t0, t1) ==
    IF WindowOf(t1) = WindowOf(t0) THEN e
    ELSE IF WindowOf(t1) = WindowOf(t0) + 1 THEN [cur |-> 0, prev |-> e.cur]
    ELSE [cur |-> 0, prev |-> 0]

Consume(e) == [e EXCEPT !.cur = @ + 1]

(***************************************************************************)
(* checkUsername's decisions.                                              *)
(***************************************************************************)
NoResult ==
    [kind |-> "none", available |-> FALSE, cached |-> FALSE, status |-> 0,
     retryAfter |-> 0]

Success(available, cached) ==
    [NoResult EXCEPT !.kind = "ok", !.available = available, !.cached = cached]

ApiError(status) ==
    [NoResult EXCEPT !.kind = "hytale_api_error", !.status = status]

RateLimited(retryAfter) ==
    [NoResult EXCEPT !.kind = "rate_limited", !.retryAfter = retryAfter]

\* Math.ceil(a / b) for b > 0
Ceil(a, b) == -((-a) \div b)

\* Math.ceil((rateLimit.reset - Date.now()) / 1000)
RetryAfter(reset, t) == Ceil(reset - t, 1000)

\* the cached value is read but the early return is missing
AfterCacheGet_NoEarlyReturn(c) == "limit"

\* if (cached !== null) return ...: where checkUsername goes after the read
AfterCacheGet(c) == IF ~c.isNull THEN "done" ELSE "limit"

\* the limiter's answer is ignored
AfterLimit_IgnoresDenial(success) == "origin"

\* the limiter's answer is taken the wrong way round
AfterLimit_Inverted(success) == IF success THEN "done" ELSE "origin"

\* if (!rateLimit.success) return ...
AfterLimit(success) == IF ~success THEN "done" ELSE "origin"

\* only 200 is taken for an answer (as with response.ok)
IsApiError_Only200(status) == status # StatusOk

\* every answer is cached, whatever its status
IsApiError_Never(status) == FALSE

\* response.status !== 200 && response.status !== 400
IsApiError(status) == status # StatusOk /\ status # StatusTaken

\* const available = response.status === 200
AvailableOf(status) == status = StatusOk

\* the handler goes to the limiter without reading the cache
AfterEnsure_SkipsCache(p) == IF p = "main" THEN "serving" ELSE "limit"

\* the GET /check/:username handler awaits ensureLoggedIn() before it
\* calls checkUsername; main awaits it before listen
AfterEnsure(p) == IF p = "main" THEN "serving" ELSE "cache_get"

NoLocals ==
    [cached |-> [isNull |-> TRUE, value |-> FALSE], success |-> FALSE,
     reset |-> 0, query |-> <<>>, status |-> 0]

NoRequest == [user |-> <<>>, ip |-> "unknown"]

\* a login run: the requests it has sent and what their answers held
NoLogin ==
    [sent |-> 0, flow |-> FALSE, csrf |-> FALSE, status |-> 0,
     settings |-> FALSE]

\* login() is entered: the flow-initiation request is sent
LoginAt(pos) ==
    IF pos = "login_init" THEN [NoLogin EXCEPT !.sent = 1] ELSE NoLogin

\* if (!flowMatch) throw ...; if (!csrfCookie) throw ...
InitAccepted(hasFlow, hasCsrf) == hasFlow /\ hasCsrf

\* any 303 is taken for a login
LoginAccepted_AnyRedirect(status, toSettings) == status = StatusSeeOther

\* loginResponse.status !== 303 || !redirectLocation?.includes("/settings")
\* throws
LoginAccepted(status, toSettings) == status = StatusSeeOther /\ toSettings

LoginPcs == {"login_init", "login_post", "login_follow"}

\* positions of a handler instance that serves no request
Free == {"idle", "done", "threw"}

(***************************************************************************)
(* Initial state: the module has been loaded, the cookie jar is empty and  *)
(* main is about to await ensureLoggedIn() (part_002:171).  Redis outlives *)
(* the process: the limiter's counters may hold the permits that callers   *)
(* consumed earlier in the window.                                         *)
(***************************************************************************)
Init ==
    /\ alive = TRUE
    /\ termPending = FALSE
    /\ now = 0
    /\ jar = EmptyJar
    /\ cache = [k \in CacheKeys |-> Absent]
    /\ \E ip0 \in {"10.0.0.1"}, n \in {0, Tokens - 1} :   \* earlier permits
          /\ permits = [ip \in IPs |->
                           [cur |-> IF ip = ip0 THEN n ELSE 0, prev |-> 0]]
          /\ rlStore = [k \in RLKeys |->
                           [cur |-> IF k = RateLimitKey(ip0) THEN n ELSE 0,
                            prev |-> 0]]
    /\ taken = [u \in {ToLowerCase(v) : v \in Usernames} |-> FALSE]
    /\ pc = [p \in Procs |-> IF p = "main" THEN "boot" ELSE "idle"]
    /\ req = [h \in Handlers |-> NoRequest]
    /\ loc = [h \in Handlers |-> NoLocals]
    /\ result = [h \in Handlers |-> NoResult]
    /\ started = 0
    /\ trace = [p \in Procs |-> <<>>]
    /\ loginFailed = [p \in Procs |-> FALSE]
    /\ recorded = [k \in CacheKeys |-> FALSE]
    /\ late = [h \in Handlers |-> FALSE]
    /\ prior = [h \in Handlers |-> Absent]
    /\ statusReply = NoStatus
    /\ loginRun = [p \in Procs |-> NoLogin]
    /\ granted = 0
    /\ originRequests = 0

(***************************************************************************)
(* ensureLoggedIn and login (part_002:69-129).                             *)
(***************************************************************************)
\* login() is called whatever the session
AfterValidityCheck_AlwaysLogin(p) == "login_init"

\* ensureLoggedIn up to its first await: return on a valid session,
\* otherwise call login(), which sends the flow-initiation request.
AfterValidityCheck(p) ==
    IF isSessionValid(jar, now) THEN AfterEnsure(p) ELSE "login_init"

\* catch (error) { process.kill(process.pid, "SIGTERM") }: the signal is
\* sent, the catch block ends and ensureLoggedIn resolves.
LoginThrows(p) ==
    /\ termPending' = TRUE
    /\ loginFailed' = [loginFailed EXCEPT ![p] = TRUE]
    /\ loginRun' = [loginRun EXCEPT ![p] = NoLogin]
    /\ pc' = [pc EXCEPT ![p] = AfterEnsure(p)]

\* main: await ensureLoggedIn() at start-up
Boot ==
    /\ alive
    /\ pc["main"] = "boot"
    /\ trace' = [trace EXCEPT !["main"] = <<"session">>]
    /\ pc' = [pc EXCEPT !["main"] = AfterValidityCheck("main")]
    /\ loginRun' = [loginRun EXCEPT !["main"] =
                       LoginAt(AfterValidityCheck("main"))]
    /\ UNCHANGED << alive, termPending, now, jar, cache, rlStore, taken, req,
                    loc, result, started, loginFailed, permits, recorded,
                    late, prior, statusReply, granted, originRequests >>

\* GET /check/:username arrives at a handler instance that has answered its
\* previous request: the handler awaits ensureLoggedIn().  (No request
\* arrives in the instants between the sending of SIGTERM and its delivery.)
Start(h, u) ==
    /\ alive
    /\ ~termPending
    /\ pc["main"] = "serving"
    /\ pc[h] \in Free
    /\ \A g \in Handlers : Before(g, h) => pc[g] \notin Free
    /\ started < MaxRequests
    /\ started' = started + 1
    /\ req' = [req EXCEPT ![h] = [user |-> u, ip |-> "unknown"]]
    /\ loc' = [loc EXCEPT ![h] = NoLocals]
    /\ result' = [result EXCEPT ![h] = NoResult]
    /\ late' = [late EXCEPT ![h] = recorded[CacheKey(u)]]
    /\ prior' = [prior EXCEPT ![h] = cache[CacheKey(u)]]
    /\ loginFailed' = [loginFailed EXCEPT ![h] = FALSE]
    /\ trace' = [trace EXCEPT ![h] = <<"session">>]
    /\ pc' = [pc EXCEPT ![h] = AfterValidityCheck(h)]
    /\ loginRun' = [loginRun EXCEPT ![h] = LoginAt(AfterValidityCheck(h))]
    /\ UNCHANGED << alive, termPending, now, jar, cache, rlStore, taken,
                    permits, recorded, statusReply, granted, originRequests >>

\* The flow-initiation response arrives: its cookies go to the jar; then the
\* flow id is matched in location and the csrf_token cookie is looked up.
LoginInit(p, hasFlow, setsCsrf, throws) ==
    /\ alive
    /\ pc[p] = "login_init"
    /\ IF throws
       THEN /\ LoginThrows(p)
            /\ UNCHANGED jar
       ELSE /\ jar' = [jar EXCEPT !.csrf = @ \/ setsCsrf]
            /\ IF ~InitAccepted(hasFlow, jar'.csrf)
               THEN LoginThrows(p)
               ELSE /\ pc' = [pc EXCEPT ![p] = "login_post"]
                    /\ loginRun' = [loginRun EXCEPT ![p].flow = hasFlow,
                                                    ![p].csrf = jar'.csrf,
                                                    ![p].sent = 2]
                    /\ UNCHANGED << termPending, loginFailed >>
    /\ UNCHANGED << alive, now, cache, rlStore, taken, req, loc, result,
                    started, trace, permits, recorded, late, prior,
                    statusReply, granted, originRequests >>

\* The credential POST is answered: 303 with /settings in location, or not.
LoginPost(p, status, toSettings, throws) ==
    /\ alive
    /\ pc[p] = "login_post"
    /\ IF throws \/ ~LoginAccepted(status, toSettings)
       THEN LoginThrows(p)
       ELSE /\ pc' = [pc EXCEPT ![p] = "login_follow"]
            /\ loginRun' = [loginRun EXCEPT ![p].status = status,
                                            ![p].settings = toSettings,
                                            ![p].sent = 3]
            /\ UNCHANGED << termPending, loginFailed >>
    /\ UNCHANGED << alive, now, jar, cache, rlStore, taken, req, loc, result,
                    started, trace, permits, recorded, late, prior,
                    statusReply, granted, originRequests >>

\* The redirect is followed: the session cookie is issued and the login
\* run is over.
LoginFollow(p, life, throws) ==
    /\ alive
    /\ pc[p] = "login_follow"
    /\ IF throws
       THEN /\ LoginThrows(p)
            /\ UNCHANGED jar
       ELSE /\ jar' = [jar EXCEPT !.session = TRUE, !.expires = now + life]
            /\ pc' = [pc EXCEPT ![p] = AfterEnsure(p)]
            /\ loginRun' = [loginRun EXCEPT ![p] = NoLogin]
            /\ UNCHANGED << termPending, loginFailed >>
    /\ UNCHANGED << alive, now, cache, rlStore, taken, req, loc, result,
                    started, trace, permits, recorded, late, prior,
                    statusReply, granted, originRequests >>

\* SIGTERM is delivered: the process ends and what it held in memory (the
\* cookie jar, the handlers and their locals) is gone; Redis and the origin
\* keep their state.
Terminate ==
    /\ alive
    /\ termPending
    /\ alive' = FALSE
    /\ termPending' = FALSE
    /\ jar' = EmptyJar
    /\ pc' = [p \in Procs |-> "dead"]
    /\ req' = [h \in Handlers |-> NoRequest]
    /\ loc' = [h \in Handlers |-> NoLocals]
    /\ result' = [h \in Handlers |-> NoResult]
    /\ trace' = [p \in Procs |-> <<>>]
    /\ loginFailed' = [p \in Procs |-> FALSE]
    /\ late' = [h \in Handlers |-> FALSE]
    /\ prior' = [h \in Handlers |-> Absent]
    /\ loginRun' = [p \in Procs |-> NoLogin]
    /\ UNCHANGED << now, cache, rlStore, taken, started, permits, recorded,
                    statusReply, granted, originRequests >>

(***************************************************************************)
(* checkUsername (part_002:136-169).                                       *)
(***************************************************************************)
\* Redis answers the GET of getCachedAvailability.
CacheGet(h) ==
    /\ alive
    /\ pc[h] = "cache_get"
    /\ LET cached == getCachedAvailability(cache, req[h].user, now)
       IN  /\ loc' = [loc EXCEPT ![h].cached = cached]
           /\ pc' = [pc EXCEPT ![h] = AfterCacheGet(cached)]
           /\ result' = [result EXCEPT ![h] =
                  IF AfterCacheGet(cached) = "done"
                  THEN Success(cached.value, TRUE) ELSE @]
    /\ trace' = [trace EXCEPT ![h] = Append(@, "cache")]
    /\ UNCHANGED << alive, termPending, now, jar, cache, rlStore, taken, req,
                    started, loginFailed, permits, recorded, late, prior,
                    statusReply, loginRun, granted, originRequests >>

\* Redis runs the sliding-window script of ratelimit.limit.  The caller's
\* address (server?.requestIP(request)?.address ?? "unknown", read after
\* ensureLoggedIn) is first used here, so the model draws it here.
RateLimit(h, ip) ==
    /\ alive
    /\ pc[h] = "limit"
    /\ LET k == RateLimitKey(ip)
           ok == SlidingWindowAllows(rlStore[k], now)
       IN  /\ rlStore' = [rlStore EXCEPT ![k] = IF ok THEN Consume(@) ELSE @]
           /\ permits' = [permits EXCEPT ![ip] = IF ok THEN Consume(@) ELSE @]
           /\ loc' = [loc EXCEPT ![h].success = ok, ![h].reset = ResetAt(now)]
           /\ granted' = IF ok THEN granted + 1 ELSE granted
    /\ req' = [req EXCEPT ![h].ip = ip]
    /\ pc' = [pc EXCEPT ![h] = "limit_ret"]
    /\ trace' = [trace EXCEPT ![h] = Append(@, "limiter")]
    /\ UNCHANGED << alive, termPending, now, jar, cache, taken, result,
                    started, loginFailed, recorded, late, prior, statusReply,
                    loginRun, originRequests >>

\* The limiter's answer reaches checkUsername: the request is refused, or
\* the availability request is sent to the origin.
RateLimitReturn(h) ==
    /\ alive
    /\ pc[h] = "limit_ret"
    /\ pc' = [pc EXCEPT ![h] = AfterLimit(loc[h].success)]
    /\ IF AfterLimit(loc[h].success) = "done"
       THEN /\ result' = [result EXCEPT ![h] =
                              RateLimited(RetryAfter(loc[h].reset, now))]
            /\ UNCHANGED << loc, originRequests >>
       ELSE /\ loc' = [loc EXCEPT ![h].query = OriginQuery(req[h].user)]
            /\ originRequests' = originRequests + 1
            /\ UNCHANGED result
    /\ UNCHANGED << alive, termPending, now, jar, cache, rlStore, taken, req,
                    started, trace, loginFailed, permits, recorded, late,
                    prior, statusReply, loginRun, granted >>

\* the statuses the origin can answer for a name
OriginStatuses(u) ==
    {IF taken[ToLowerCase(u)] THEN StatusTaken ELSE StatusOk,
     StatusUnauthorized, StatusServerError}

\* The origin answers the availability request (or the fetch rejects); the
\* fetch goes through fetchWithCookies, which stores the answer's cookies.
Origin(h, status, setCookie, throws) ==
    /\ alive
    /\ pc[h] = "origin"
    /\ status \in OriginStatuses(DecodeURIComponent(loc[h].query))
    /\ setCookie \in OriginCookies(status)
    /\ trace' = [trace EXCEPT ![h] = Append(@, "origin")]
    /\ IF throws
       THEN /\ pc' = [pc EXCEPT ![h] = "threw"]
            /\ UNCHANGED << jar, loc, result >>
       ELSE /\ jar' = StoreCookies(jar, setCookie)
            /\ loc' = [loc EXCEPT ![h].status = status]
            /\ IF IsApiError(status)
               THEN /\ pc' = [pc EXCEPT ![h] = "done"]
                    /\ result' = [result EXCEPT ![h] = ApiError(status)]
               ELSE /\ pc' = [pc EXCEPT ![h] = "cache_set"]
                    /\ UNCHANGED result
    /\ UNCHANGED << alive, termPending, now, cache, rlStore, taken, req,
                    started, loginFailed, permits, recorded, late, prior,
                    statusReply, loginRun, granted, originRequests >>

\* Redis runs the SET of setCachedAvailability and checkUsername returns.
CacheSet(h) ==
    /\ alive
    /\ pc[h] = "cache_set"
    /\ LET available == AvailableOf(loc[h].status)
       IN  /\ cache' = setCachedAvailability(cache, req[h].user, available, now)
           /\ result' = [result EXCEPT ![h] = Success(available, FALSE)]
           /\ recorded' = [recorded EXCEPT ![CacheKey(req[h].user)] =
                              @ \/ ~available]
    /\ pc' = [pc EXCEPT ![h] = "done"]
    /\ trace' = [trace EXCEPT ![h] = Append(@, "cache-write")]
    /\ UNCHANGED << alive, termPending, now, jar, rlStore, taken, req, loc,
                    started, loginFailed, permits, late, prior, statusReply,
                    loginRun, granted, originRequests >>

(***************************************************************************)
(* Environment: the clock and the origin's reservations.                   *)
(***************************************************************************)
\* The clock advances (not while a SIGTERM awaits delivery, which takes
\* much less than a tick).
Tick ==
    /\ alive
    /\ ~termPending
    /\ now + TickMs <= MaxTimeMs
    /\ now' = now + TickMs
    /\ cache' = Purge(cache, now')
    /\ rlStore' = [k \in DOMAIN rlStore |-> Roll(rlStore[k], now, now')]
    /\ permits' = [ip \in DOMAIN permits |-> Roll(permits[ip], now, now')]
    /\ UNCHANGED << alive, termPending, jar, taken, pc, req, loc, result,
                    started, trace, loginFailed, recorded, late, prior,
                    statusReply, loginRun, granted, originRequests >>

\* Somebody reserves the name at the origin.
Reserve(n) ==
    /\ alive
    /\ ~taken[n]
    /\ taken' = [taken EXCEPT ![n] = TRUE]
    /\ UNCHANGED << alive, termPending, now, jar, cache, rlStore, pc, req,
                    loc, result, started, trace, loginFailed, permits,
                    recorded, late, prior, statusReply, loginRun, granted,
                    originRequests >>

Next ==
    \/ Boot
    \/ \E h \in Handlers, u \in Usernames : Start(h, u)
    \/ \E p \in Procs, hasFlow, setsCsrf, throws \in BOOLEAN :
          LoginInit(p, hasFlow, setsCsrf, throws)
    \/ \E p \in Procs, status \in {StatusSeeOther, StatusOk},
          toSettings, throws \in BOOLEAN :
          LoginPost(p, status, toSettings, throws)
    \/ \E p \in Procs, life \in SessionLifetimes, throws \in BOOLEAN :
          LoginFollow(p, life, throws)
    \/ Terminate
    \/ \E h \in Handlers : CacheGet(h)
    \/ \E h \in Handlers, ip \in IPs : RateLimit(h, ip)
    \/ \E h \in Handlers : RateLimitReturn(h)
    \/ \E h \in Handlers, throws \in BOOLEAN, setCookie \in SetCookies,
          status \in {StatusOk, StatusTaken, StatusUnauthorized,
                      StatusServerError} : Origin(h, status, setCookie, throws)
    \/ \E h \in Handlers : CacheSet(h)
    \/ Tick
    \/ \E n \in DOMAIN taken : Reserve(n)

Spec == Init /\ [][Next]_vars

(***************************************************************************)
(* GET /status (part_002:209-221) and the session on its own: the cookie   *)
(* jar holds no session cookie, or one without expiry, or one that expires *)
(* some minutes after the start; the clock advances and GET /status is     *)
(* answered.  The handler reads the jar and the clock and writes nothing.  *)
(***************************************************************************)
Status ==
    /\ alive
    /\ pc["main"] = "serving"
    /\ LET loggedIn == isSessionValid(jar, now)
           expiresAt == getSessionExpiry(jar, now)
       IN  statusReply' =
               IF expiresAt.isNull THEN StatusBody(loggedIn, 0, 0)
               ELSE IF ~expiresAt.validDate THEN StatusThrew
               ELSE StatusBody(loggedIn, expiresAt.ms,
                               HoursLeft(expiresAt.ms, now))
    /\ UNCHANGED << alive, termPending, now, jar, cache, rlStore, taken, pc,
                    req, loc, result, started, trace, loginFailed, permits,
                    recorded, late, prior, loginRun, granted, originRequests
                    >>

SessionExpiries == {0} \cup { m * 60000 : m \in 1..MaxExpiryMin }

SessionJars ==
    {[EmptyJar EXCEPT !.csrf = TRUE]} \cup
    { [csrf |-> TRUE, session |-> TRUE, expires |-> e] : e \in SessionExpiries }

SessionInit ==
    /\ alive = TRUE
    /\ termPending = FALSE
    /\ now = 0
    /\ jar \in SessionJars
    /\ cache = [k \in CacheKeys |-> Absent]
    /\ permits = [ip \in IPs |-> [cur |-> 0, prev |-> 0]]
    /\ rlStore = [k \in RLKeys |-> [cur |-> 0, prev |-> 0]]
    /\ taken = [u \in {ToLowerCase(v) : v \in Usernames} |-> FALSE]
    /\ pc = [p \in Procs |-> IF p = "main" THEN "serving" ELSE "idle"]
    /\ req = [h \in Handlers |-> NoRequest]
    /\ loc = [h \in Handlers |-> NoLocals]
    /\ result = [h \in Handlers |-> NoResult]
    /\ started = 0
    /\ trace = [p \in Procs |-> <<>>]
    /\ loginFailed = [p \in Procs |-> FALSE]
    /\ recorded = [k \in CacheKeys |-> FALSE]
    /\ late = [h \in Handlers |-> FALSE]
    /\ prior = [h \in Handlers |-> Absent]
    /\ statusReply = NoStatus
    /\ loginRun = [p \in Procs |-> NoLogin]
    /\ granted = 0
    /\ originRequests = 0

SessionNext == Status \/ Tick

SessionSpec == SessionInit /\ [][SessionNext]_vars

(***************************************************************************)
(* Properties.                                                             *)
(***************************************************************************)
Range(q) == { q[i] : i \in DOMAIN q }

IsPrefix(q, r) == Len(q) <= Len(r) /\ \A i \in DOMAIN q : q[i] = r[i]

\* No SIGTERM has been sent: the process is in normal operation.
Healthy == alive /\ ~termPending

\* handler h takes a step of its own
Steps(h) == alive' /\ pc'[h] # pc[h]

\* C1: at most one run of the login protocol is in progress at any time.
C1_SingleFlightLogin ==
    Healthy => Cardinality({ p \in Procs : pc[p] \in LoginPcs }) <= 1

\* C2: after a login failure inside ensureLoggedIn the request that
\* triggered the login never proceeds: no origin availability request, no
\* cache write, no verdict.  (Stated for a process whose start-up login
\* succeeded.)
C2_FailedLoginStopsRequest ==
    \A h \in Handlers :
        (loginFailed[h] /\ ~loginFailed["main"]) =>
            /\ "origin" \notin Range(trace[h])
            /\ "cache-write" \notin Range(trace[h])
            /\ result[h].kind = "none"

C4_CacheHitBypassesLimiter ==
    [][\A h \in Handlers :
          LET v == RedisGet(cache, CacheKey(req[h].user), now)
          IN  (pc[h] = "cache_get" /\ Steps(h) /\ v # Null) =>
                  /\ pc'[h] = "done"
                  /\ result'[h] = Success(v = "1", TRUE)
                  /\ "limiter" \notin Range(trace'[h])
                  /\ rlStore' = rlStore]_vars

\* C4 witness: a request was answered from the cache.
C4_Witness ==
    /\ Healthy
    /\ \E h \in Handlers :
        pc[h] = "done" /\ result[h].kind = "ok" /\ result[h].cached

\* C5: a request the limiter denies returns Failure{RateLimited} and makes
\* no origin request and no cache write.
C5_DenialShortCircuits ==
    \A h \in Handlers :
        ("limiter" \in Range(trace[h]) /\ ~loc[h].success) =>
            /\ pc[h] \in {"limit_ret", "done"}
            /\ trace[h] = <<"session", "cache", "limiter">>
            /\ pc[h] = "done" => result[h].kind = "rate_limited"

\* C5 witness: a request was answered rate_limited.
C5_Witness ==
    /\ Healthy
    /\ \E h \in Handlers : pc[h] = "done" /\ result[h].kind = "rate_limited"

\* C6: within one window of the limiter at most Tokens calls of one
\* identity return success = true, under any interleaving of the calls: the
\* call after the Tokens-th is denied.
C6_AtMostTokensPerWindow ==
    /\ \A ip \in IPs : permits[ip].cur <= Tokens
    /\ \A k \in RLKeys : rlStore[k].cur <= Tokens

\* C6 witness: two concurrent callers met one remaining permit; one passed
\* and the other, the (Tokens + 1)-th call of the window, was denied.
C6_Witness ==
    /\ Healthy
    /\ \E g, h \in Handlers :
        /\ pc[g] = "limit_ret" /\ loc[g].success
        /\ pc[h] = "limit_ret" /\ ~loc[h].success
        /\ req[g].ip = req[h].ip
        /\ permits[req[h].ip].cur = Tokens

\* C7: the permits one identity consumes never reduce those of another: a
\* call is denied only when the caller's own permits exhaust the window.
C7_WindowsArePerIdentity ==
    [][Healthy =>
          \A h \in Handlers :
              (pc[h] = "limit" /\ Steps(h) /\ ~loc'[h].success) =>
                  ~SlidingWindowAllows(permits[req'[h].ip], now)]_vars

\* C8: a request that reaches the origin returns Success{true, false} for
\* status 200, Success{false, false} for status 400 and
\* Failure{OriginError, status} for every other status.
C8_StatusMapping ==
    \A h \in Handlers :
        (pc[h] = "done" /\ "origin" \in Range(trace[h])) =>
            result[h] =
                IF loc[h].status = 200 THEN Success(TRUE, FALSE)
                ELSE IF loc[h].status = 400 THEN Success(FALSE, FALSE)
                ELSE ApiError(loc[h].status)

\* C8 witness: requests answered from status 400 and from status 500.
C8_Witness ==
    /\ Healthy
    /\ \E g, h \in Handlers :
        /\ pc[g] = "done" /\ loc[g].status = 400 /\ result[g].kind = "ok"
        /\ pc[h] = "done" /\ loc[h].status = 500

\* C9: when the origin answers a status other than 200 and 400 the request
\* ends with the cache as it was; with no other writer (it is the first
\* request) the cache still misses for a following identical request.
C9_OriginErrorLeavesCache ==
    /\ [][\A h \in Handlers :
             (pc[h] = "origin" /\ Steps(h) /\ pc'[h] # "threw"
                 /\ loc'[h].status \notin {200, 400}) =>
                 /\ pc'[h] = "done"
                 /\ result'[h] = ApiError(loc'[h].status)
                 /\ cache' = cache]_vars
    /\ [](\A h \in Handlers :
             (started = 1 /\ result[h].kind = "hytale_api_error") =>
                 getCachedAvailability(cache, req[h].user, now).isNull)

\* C9 witness: after an origin error for a name, a following request for
\* the same name missed the cache and is at the origin again.
C9_Witness ==
    /\ Healthy
    /\ \E g, h \in Handlers :
        /\ pc[g] = "done" /\ result[g].kind = "hytale_api_error"
        /\ pc[h] = "origin" /\ late[h] = FALSE /\ started = 2
        /\ CacheKey(req[g].user) = CacheKey(req[h].user)
        /\ \A k \in CacheKeys : cache[k] = Absent

\* C10: once a request has returned Success{false, not cached} for a name,
\* every later request for the name returns Success{false, cached} and
\* makes no origin request.
C10_TakenStaysCached ==
    Healthy =>
        \A h \in Handlers :
            late[h] =>
                /\ "origin" \notin Range(trace[h])
                /\ pc[h] = "done" => result[h] = Success(FALSE, TRUE)

\* C11: a cache entry holding the taken verdict has no expiry and reads
\* back as Some(false); an entry holding the available verdict has a
\* remaining lifetime of at most AVAILABLE_TTL seconds and reads back as
\* Some(true).  A write of true reads back as Some(true) until
\* AVAILABLE_TTL seconds have elapsed and as None from then on; a write of
\* false reads back as Some(false) at every later time.
C11_AsymmetricTtl ==
    /\ \A k \in CacheKeys :
          /\ cache[k].val = "0" =>
                 cache[k].exp = 0 /\ RedisGet(cache, k, now) = "0"
          /\ cache[k].val = "1" =>
                 /\ cache[k].exp - now > 0
                 /\ cache[k].exp - now <= AVAILABLE_TTL * 1000
                 /\ RedisGet(cache, k, now) = "1"
    /\ \A u \in Usernames :
          \A d \in {0, AVAILABLE_TTL * 1000 - 1, AVAILABLE_TTL * 1000,
                    MaxTimeMs} :
              /\ getCachedAvailability(
                     setCachedAvailability(cache, u, TRUE, now), u, now + d)
                 = IF d < AVAILABLE_TTL * 1000
                   THEN [isNull |-> FALSE, value |-> TRUE]
                   ELSE [isNull |-> TRUE, value |-> FALSE]
              /\ getCachedAvailability(
                     setCachedAvailability(cache, u, FALSE, now), u, now + d)
                 = [isNull |-> FALSE, value |-> FALSE]

\* C11 witness: an available verdict written at time 0 was read back from
\* the cache one tick later, before its AVAILABLE_TTL seconds had elapsed.
C11_Witness ==
    /\ Healthy
    /\ now = TickMs
    /\ \E h \in Handlers :
          /\ pc[h] = "done"
          /\ result[h] = Success(TRUE, TRUE)
          /\ cache[CacheKey(req[h].user)] =
                 [val |-> "1", exp |-> AVAILABLE_TTL * 1000]

\* C12: a request returns Success{available, fromCache = false} only when
\* its cache write is done: at the reply the cache reads back the verdict
\* for the name.  A request accepted after such a reply, whose cache read
\* finds the entry as it was at its acceptance (no other writer, not
\* expired), returns Success{same verdict, fromCache = true} with no call
\* of the limiter and no origin request.
C12_WriteBeforeReply ==
    /\ [](\A h \in Handlers :
             (result[h].kind = "ok" /\ ~result[h].cached) =>
                 trace[h] =
                    <<"session", "cache", "limiter", "origin", "cache-write">>)
    /\ [][\A h \in Handlers :
             (Steps(h) /\ result'[h].kind = "ok" /\ ~result'[h].cached) =>
                 getCachedAvailability(cache', req'[h].user, now') =
                    [isNull |-> FALSE, value |-> result'[h].available]]_vars
    /\ [][\A h \in Handlers :
             LET k == CacheKey(req[h].user)
             IN  (/\ pc[h] = "cache_get" /\ Steps(h)
                  /\ prior[h] # Absent /\ cache[k] = prior[h]
                  /\ RedisGet(cache, k, now) # Null) =>
                     /\ pc'[h] = "done"
                     /\ result'[h] = Success(prior[h].val = "1", TRUE)
                     /\ trace'[h] = <<"session", "cache">>
                     /\ rlStore' = rlStore]_vars

\* C12 witness: a request was answered "available, not cached" and a
\* request for the same name, accepted after that reply while the entry was
\* alive, was answered "available, cached".
C12_Witness ==
    /\ Healthy
    /\ \E g, h \in Handlers :
          /\ pc[g] = "done" /\ result[g] = Success(TRUE, FALSE)
          /\ pc[h] = "done" /\ result[h] = Success(TRUE, TRUE)
          /\ CacheKey(req[g].user) = CacheKey(req[h].user)
          /\ prior[g] = Absent
          /\ prior[h] = cache[CacheKey(req[h].user)]
          /\ prior[h].val = "1"

\* C13: the cache is read and written under the lower-cased name, so a
\* verdict written for a name is read back for every name that differs from
\* it in letter case only; the availability request sent to the origin
\* carries the name as the caller spelled it.
C13_CaseInsensitiveCacheOriginalCasingToOrigin ==
    /\ \A u, v \in Usernames, a \in BOOLEAN :
          ToLowerCase(u) = ToLowerCase(v) =>
              getCachedAvailability(
                  setCachedAvailability(cache, u, a, now), v, now) =
                  [isNull |-> FALSE, value |-> a]
    /\ \A h \in Handlers :
          pc[h] \in {"origin", "cache_set"} =>
              DecodeURIComponent(loc[h].query) = req[h].user

\* C13 witness: the verdict a request wrote for "Fo" answered a request for
\* "fo" from the cache, and the origin had been asked for "Fo".
C13_Witness ==
    /\ Healthy
    /\ \E g, h \in Handlers :
          /\ pc[g] = "done" /\ result[g].kind = "ok" /\ ~result[g].cached
          /\ req[g].user = <<"F", "o">> /\ loc[g].query = <<"F", "o">>
          /\ pc[h] = "done" /\ result[h].kind = "ok" /\ result[h].cached
          /\ req[h].user = <<"f", "o">>
          /\ prior[h] = cache[CacheKey(req[h].user)]
          /\ result[h].available = result[g].available

\* C14: every check request that ends, ends with a CheckResult of an
\* explicit kind; a request whose availability fetch fails at the transport
\* level (or times out) after the limiter allowed it ends with
\* Failure{hytale_api_error, status}, not with an exception.
C14_EveryFailureIsStructured ==
    Healthy =>
        \A h \in Handlers :
            /\ pc[h] \in {"done", "threw"} =>
                   result[h].kind \in {"ok", "hytale_api_error", "rate_limited"}
            /\ (pc[h] \in {"done", "threw"} /\ loc[h].success
                   /\ loc[h].status = 0) =>
                   result[h].kind = "hytale_api_error"

\* C15: a request answered Failure{rate_limited, retryAfter} carries a
\* retryAfter strictly greater than 0, at whatever time after the limiter's
\* answer checkUsername computes it.
C15_RetryAfterPositive ==
    Healthy =>
        \A h \in Handlers :
            result[h].kind = "rate_limited" => result[h].retryAfter > 0

\* C16: the cookie jar, and with it the session's expiry and validity at a
\* given time, is changed by the login protocol only: no step a check
\* request takes outside login (cache read, limiter call, availability
\* request and its answer, cache write) changes it.
C16_OnlyLoginWritesSession ==
    [][Healthy =>
          \A h \in Handlers :
              (Steps(h) /\ pc[h] \notin LoginPcs) =>
                  /\ jar' = jar
                  /\ isSessionValid(jar', now) = isSessionValid(jar, now)]_vars

\* C17: isSessionValid() is true exactly when the jar holds a session cookie
\* with an expiry and now < expiry - 5 minutes: it is false without a
\* session cookie, for a cookie without expiry, and from 5 minutes before
\* the expiry on (expiry in 3 minutes: false; in 10 minutes: true); GET
\* /status reports this value as loggedIn.
C17_ValidityWithSafetyMargin ==
    /\ [](/\ isSessionValid(jar, now) <=>
               (jar.session /\ jar.expires # 0
                   /\ now < jar.expires - 5 * 60 * 1000)
          /\ ~isSessionValid([jar EXCEPT !.session = FALSE], now)
          /\ ~isSessionValid([jar EXCEPT !.session = TRUE, !.expires = 0], now)
          /\ \A m \in 0..MaxExpiryMin :
                isSessionValid([csrf |-> TRUE, session |-> TRUE,
                                expires |-> now + m * 60000], now) <=> m > 5
          /\ ~isSessionValid([csrf |-> TRUE, session |-> TRUE,
                              expires |-> now + 3 * 60000], now)
          /\ isSessionValid([csrf |-> TRUE, session |-> TRUE,
                             expires |-> now + 10 * 60000], now))
    /\ [][(statusReply' # statusReply /\ statusReply'.kind = "ok") =>
             statusReply'.loggedIn =
                (jar.session /\ jar.expires # 0
                    /\ now < jar.expires - 5 * 60 * 1000)]_vars

\* C17 witness: GET /status answered loggedIn = false for a session cookie
\* that is still in the jar and expires within the next 5 minutes.
C17_Witness ==
    /\ statusReply.kind = "ok"
    /\ ~statusReply.loggedIn
    /\ statusReply.expiresAt = jar.expires
    /\ jar.session
    /\ jar.expires - now > 0
    /\ jar.expires - now <= SafetyMarginMs
    /\ statusReply.hoursLeft = HoursLeft(jar.expires, now)

\* C18: in a login run the credential POST is sent only after the flow id
\* was found in the init redirect and a csrf_token cookie in the jar, and
\* the final redirect is followed only after the POST was answered 303
\* with /settings in its location; a run that ends in any other way than
\* by the answer of the final redirect sends no further request and sends
\* SIGTERM to the process.
C18_LoginStepOrder ==
    /\ [](\A p \in Procs :
             /\ pc[p] = "login_init" => loginRun[p].sent = 1
             /\ pc[p] = "login_post" =>
                    /\ loginRun[p].sent = 2
                    /\ loginRun[p].flow /\ loginRun[p].csrf
             /\ pc[p] = "login_follow" =>
                    /\ loginRun[p].sent = 3
                    /\ loginRun[p].flow /\ loginRun[p].csrf
                    /\ loginRun[p].status = 303 /\ loginRun[p].settings
             /\ loginFailed[p] => pc[p] \notin LoginPcs /\ termPending)
    /\ [][\A p \in Procs :
             (pc[p] \in LoginPcs /\ pc'[p] # pc[p] /\ alive') =>
                 \/ /\ pc[p] = "login_init" /\ pc'[p] = "login_post"
                    /\ ~loginFailed'[p]
                 \/ /\ pc[p] = "login_post" /\ pc'[p] = "login_follow"
                    /\ ~loginFailed'[p]
                 \/ /\ pc[p] = "login_follow" /\ pc'[p] \notin LoginPcs
                    /\ ~loginFailed'[p] /\ jar'.session
                 \/ /\ pc'[p] \notin LoginPcs
                    /\ loginFailed'[p] /\ termPending'
                    /\ jar'.session = jar.session]_vars

\* C18 witness: a login run of a check request has sent its three requests
\* and awaits the answer of the final redirect.
C18_Witness ==
    /\ Healthy
    /\ \E h \in Handlers :
          /\ pc[h] = "login_follow"
          /\ loginRun[h] = [sent |-> 3, flow |-> TRUE, csrf |-> TRUE,
                            status |-> 303, settings |-> TRUE]

\* C19: a call of ensureLoggedIn made while isSessionValid() is true sends
\* no login request and leaves the cookie jar as it is; a login run begins
\* only in a state where isSessionValid() is false, and with its first
\* request.
C19_NoLoginOnValidSession ==
    [][\A p \in Procs :
          /\ (pc[p] \in Free \cup {"boot"} /\ pc'[p] # pc[p] /\ alive'
                 /\ isSessionValid(jar, now)) =>
                 /\ pc'[p] = IF p = "main" THEN "serving" ELSE "cache_get"
                 /\ loginRun'[p].sent = 0
                 /\ jar' = jar
          /\ (pc[p] \notin LoginPcs /\ pc'[p] \in LoginPcs) =>
                 /\ ~isSessionValid(jar, now)
                 /\ pc'[p] = "login_init"
                 /\ loginRun'[p].sent = 1]_vars

\* C19 witness: the first check request found the session of the start-up
\* login valid and is at its cache read, no login request sent.
C19_Witness ==
    /\ Healthy
    /\ started = 1
    /\ isSessionValid(jar, now)
    /\ \E h \in Handlers :
          /\ pc[h] = "cache_get"
          /\ trace[h] = <<"session">>
          /\ loginRun[h].sent = 0

\* C20: the availability requests sent to the origin are never more than
\* the limiter calls answered success = true, under any interleaving of the
\* requests: every permit granted and not yet used is held by a request
\* that awaits the limiter's answer, and a request that has sent its
\* availability request has called the limiter exactly once, before
\* sending, and was granted the permit.
C20_OriginBoundedByPermits ==
    /\ originRequests <= granted
    /\ alive =>
          granted - originRequests =
             Cardinality({h \in Handlers :
                             pc[h] = "limit_ret" /\ loc[h].success})
    /\ \A h \in Handlers :
          (pc[h] \in {"origin", "cache_set"} \/ "origin" \in Range(trace[h])) =>
              /\ loc[h].success
              /\ Cardinality({i \in DOMAIN trace[h] :
                                  trace[h][i] = "limiter"}) = 1
              /\ IsPrefix(<<"session", "cache", "limiter">>, trace[h])

\* C20 witness: two requests missed the cache for the same name at the same
\* time; each was granted a permit and sent its availability request.
C20_Witness ==
    /\ Healthy
    /\ pc["h1"] = "origin" /\ pc["h2"] = "origin"
    /\ CacheKey(req["h1"].user) = CacheKey(req["h2"].user)
    /\ originRequests = 2
    /\ granted = 2

====
